---------------------------- MODULE Spec2Model ----------------------------
(***************************************************************************)
(* Model of remove_console_logs_v2.py: the line scanner that comments out  *)
(* console.log/error/warn/info statements, the counter of statements that  *)
(* are still active, and the driver main() that walks files_to_process;    *)
(* and of remove_console_logs.py, the earlier script that does the same    *)
(* with two regular-expression substitutions on the whole content.         *)
(*                                                                         *)
(* A text is a sequence of tokens.  A token is one character (" ", "/",    *)
(* "(", ")", ";", "\n", "x", and BT for the backtick) or one of the words  *)
(* "console.", "log", "error", "warn", "info", "debug", which the code     *)
(* only ever tests as a whole.  The string operations of the code (lstrip, *)
(* rstrip, startswith, endswith, count, in, readlines, writelines, the     *)
(* regular expression) are computed on these sequences.                    *)
(***************************************************************************)
EXTENDS Integers, Sequences, FiniteSets, TLC

(***************************************************************************)
(* Bounds of the model.                                                    *)
(***************************************************************************)
\* longest file, in lines, built from CoreLines
MaxLines == 3
\* how many times the harness calls comment_out_console_statements on a file
MaxPasses == 2
\* how many entries of files_to_process main() walks
NumFiles == 3

(***************************************************************************)
(* String operations of Python, on token sequences.                        *)
(***************************************************************************)
\* str.isspace of one character, as lstrip()/rstrip() without argument use it
IsSpace(t) == t \in {" ", "\n"}

RECURSIVE LStrip(_)
LStrip(s) ==
    IF s # <<>> /\ IsSpace(Head(s)) THEN LStrip(Tail(s)) ELSE s

RECURSIVE RStrip(_)
RStrip(s) ==
    IF s # <<>> /\ IsSpace(s[Len(s)]) THEN RStrip(SubSeq(s, 1, Len(s) - 1)) ELSE s

StartsWith(s, p) == Len(s) >= Len(p) /\ SubSeq(s, 1, Len(p)) = p

EndsWith(s, p) == Len(s) >= Len(p) /\ SubSeq(s, Len(s) - Len(p) + 1, Len(s)) = p

\* s.count(t) for a one-character t
Count(s, t) == Cardinality({p \in 1..Len(s) : s[p] = t})

\* t in s for a one-character t
Has(s, t) == \E p \in 1..Len(s) : s[p] = t

RECURSIVE Flatten(_)
Flatten(ss) == IF ss = <<>> THEN <<>> ELSE Head(ss) \o Flatten(Tail(ss))

\* f.readlines(): the content cut after every "\n"; a last line may lack it
RECURSIVE ReadLinesFrom(_, _)
ReadLinesFrom(content, cur) ==
    IF content = <<>>
    THEN IF cur = <<>> THEN <<>> ELSE <<cur>>
    ELSE IF Head(content) = "\n"
         THEN <<Append(cur, "\n")>> \o ReadLinesFrom(Tail(content), <<>>)
         ELSE ReadLinesFrom(Tail(content), Append(cur, Head(content)))

ReadLines(content) == ReadLinesFrom(content, <<>>)

\* f.writelines(lines): the lines one after the other, nothing added
WriteLines(ls) == Flatten(ls)


(***************************************************************************)
(* comment_out_console_statements: the test of a line and its rewriting.   *)
(***************************************************************************)
\* the backtick character (a string of this language cannot hold one)
BT == "backtick"

\* the method names of the list ['log', 'error', 'warn', 'info']
Methods == {"log", "error", "warn", "info"}

\* the comment marker '// ' the rewriter inserts
Marker == <<"/", "/", " ">>

\* indent = line[:len(line) - len(stripped)]
Indent(line) == SubSeq(line, 1, Len(line) - Len(LStrip(line)))

\* s without the '/' and ' ' characters it begins with
RECURSIVE PastMarker(_)
PastMarker(s) ==
    IF s # <<>> /\ Head(s) \in {"/", " "} THEN PastMarker(Tail(s)) ELSE s

\* IsMatch that tests stripped.lstrip('/ ') in place of stripped
IsMatchPastMarker(stripped) ==
    \E method \in Methods : StartsWith(PastMarker(stripped), <<"console.", method>>)

\* IsMatch that tests 'console.<method>' in stripped in place of startswith
IsMatchAnywhere(stripped) ==
    \E p \in 1..Len(stripped) :
        /\ p + 1 <= Len(stripped)
        /\ stripped[p] = "console."
        /\ stripped[p + 1] \in Methods

\* IsMatch with a method list that holds 'log' alone
IsMatchLogOnly(stripped) ==
    /\ StartsWith(stripped, <<"console.">>)
    /\ ~StartsWith(stripped, Marker \o <<"console.">>)
    /\ StartsWith(stripped, <<"console.", "log">>)

\* the condition of the if: the stripped line starts with 'console.', does not
\* start with '// console.', and starts with 'console.<method>'
IsMatch(stripped) ==
    /\ StartsWith(stripped, <<"console.">>)
    /\ ~StartsWith(stripped, Marker \o <<"console.">>)
    /\ \E method \in Methods : StartsWith(stripped, <<"console.", method>>)

\* CommentOut that forgets the indent: '// ' + stripped
CommentOutNoIndent(line) == Marker \o LStrip(line)

\* lines[i] = indent + '// ' + stripped
CommentOut(line) == Indent(line) \o Marker \o LStrip(line)

\* the template-literal test: '`' in stripped and stripped.count('`') % 2 == 1
OpenTemplate(stripped) == Has(stripped, BT) /\ Count(stripped, BT) % 2 = 1

\* the elif: the stripped line ends neither with ';' nor with ')'
NoTerminator(stripped) ==
    /\ ~EndsWith(RStrip(stripped), <<";">>)
    /\ ~EndsWith(RStrip(stripped), <<")">>)

\* line.count('(') - line.count(')')
ParenDelta(line) == Count(line, "(") - Count(line, ")")

\* TemplateScan that takes a line for the closing one only if it begins with the
\* backtick
RECURSIVE TemplateScanAtStart(_, _)
TemplateScanAtStart(ls, j) ==
    IF j < Len(ls) /\ ~StartsWith(LStrip(ls[j + 1]), <<BT>>)
    THEN TemplateScanAtStart(ls, j + 1)
    ELSE j

\* the inner while of the template branch, entered with the index j (0-based):
\* the index of the first line from j on that holds a backtick, else len(lines)
RECURSIVE TemplateScan(_, _)
TemplateScan(ls, j) ==
    IF j < Len(ls) /\ ~Has(ls[j + 1], BT) THEN TemplateScan(ls, j + 1) ELSE j

\* ParenScan with an if in place of the while: it reads one following line only
ParenScanOneLine(ls, j, open) ==
    IF j < Len(ls) /\ open > 0 THEN j + 1 ELSE j

\* the inner while of the parenthesis branch, entered with the index j and the
\* count open: the index after the line that brings the count to <= 0, else
\* len(lines)
RECURSIVE ParenScan(_, _, _)
ParenScan(ls, j, open) ==
    IF j < Len(ls) /\ open > 0
    THEN ParenScan(ls, j + 1, open + ParenDelta(ls[j + 1]))
    ELSE j

\* SpanEnd that tries the parenthesis rule before the template rule
SpanEndParenFirst(ls, i0) ==
    LET stripped == LStrip(ls[i0 + 1])
    IN  IF NoTerminator(stripped) /\ ParenDelta(stripped) > 0
        THEN ParenScan(ls, i0 + 1, ParenDelta(stripped)) - 1
        ELSE IF OpenTemplate(stripped)
             THEN TemplateScan(ls, i0 + 1)
             ELSE i0

\* SpanEnd with the i -= 1 after the whole if, so that every branch backs up
SpanEndBackupAlways(ls, i0) ==
    LET stripped == LStrip(ls[i0 + 1])
    IN  IF OpenTemplate(stripped)
        THEN TemplateScan(ls, i0 + 1) - 1
        ELSE IF NoTerminator(stripped) /\ ParenDelta(stripped) > 0
             THEN ParenScan(ls, i0 + 1, ParenDelta(stripped)) - 1
             ELSE i0 - 1

\* SpanEnd without the i -= 1 that follows the inner while of the parenthesis branch
SpanEndNoBackup(ls, i0) ==
    LET stripped == LStrip(ls[i0 + 1])
    IN  IF OpenTemplate(stripped)
        THEN TemplateScan(ls, i0 + 1)
        ELSE IF NoTerminator(stripped) /\ ParenDelta(stripped) > 0
             THEN ParenScan(ls, i0 + 1, ParenDelta(stripped))
             ELSE i0

\* the value of i at the bottom of the if, before the final i += 1, for a line
\* that matched at index i0
SpanEnd(ls, i0) ==
    LET stripped == LStrip(ls[i0 + 1])
    IN  IF OpenTemplate(stripped)
        THEN TemplateScan(ls, i0 + 1)
        ELSE IF NoTerminator(stripped) /\ ParenDelta(stripped) > 0
             THEN ParenScan(ls, i0 + 1, ParenDelta(stripped)) - 1
             ELSE i0

(***************************************************************************)
(* count_active_console_statements: the regular expression, per line.      *)
(***************************************************************************)
\* console\.(?:log|error|warn|info) matches at position p of s
CallAt(s, p) == p + 1 <= Len(s) /\ s[p] = "console." /\ s[p + 1] \in Methods

\* the lookahead .*//.*console\.(...): a '//' with a call somewhere after it
CommentedCall(s) ==
    \E a \in 1..Len(s) : \E p \in 1..Len(s) :
        /\ a + 1 <= Len(s) /\ s[a] = "/" /\ s[a + 1] = "/"
        /\ a + 2 <= p /\ CallAt(s, p)

\* LineIsActive without the negative lookahead: a commented call counts too
LineIsActiveNoLookahead(s) == \E p \in 1..Len(s) : CallAt(s, p)

\* the pattern matches at the start of the line s (s without its "\n")
LineIsActive(s) ==
    /\ \E p \in 1..Len(s) : CallAt(s, p)
    /\ ~CommentedCall(s)

\* the text of a line as '.' sees it: without its line terminator
Body(line) == IF EndsWith(line, <<"\n">>) THEN SubSeq(line, 1, Len(line) - 1) ELSE line

\* len(re.findall(pattern, content, re.MULTILINE))
count_active_console_statements(content) ==
    Cardinality({n \in 1..Len(ReadLines(content)) : LineIsActive(Body(ReadLines(content)[n]))})

(***************************************************************************)
(* remove_console_logs.py: the two re.sub patterns and the count.          *)
(***************************************************************************)
\* a greedy \s* from the index p (1-based) on: the first index that holds no
\* whitespace, Len(s) + 1 if there is none
RECURSIVE SkipSpace(_, _)
SkipSpace(s, p) == IF p <= Len(s) /\ IsSpace(s[p]) THEN SkipSpace(s, p + 1) ELSE p

\* ^ under re.MULTILINE: the start of the text or the place after a "\n"
AtLineStart(s, p) == p = 1 \/ s[p - 1] = "\n"

\* (?<!\/\/) at the index p
NotAfterSlashes(s, p) == ~(p >= 3 /\ s[p - 2] = "/" /\ s[p - 1] = "/")

\* ^(\s*)(?<!\/\/)console\.(log|error|warn|info)\s*\( tried at the index p: the
\* index of the "(" that ends the match, 0 if there is no match.  The \s* runs
\* over spaces and newlines alike; a shorter \s* is never followed by console.
Pattern1End(s, p) ==
    LET w == SkipSpace(s, p)
        v == SkipSpace(s, w + 2)
    IN  IF /\ AtLineStart(s, p)
           /\ w + 1 <= Len(s)
           /\ s[w] = "console."
           /\ s[w + 1] \in Methods
           /\ NotAfterSlashes(s, w)
           /\ v <= Len(s)
           /\ s[v] = "("
        THEN v ELSE 0

\* the last index in a..b that holds a "\n", 0 if there is none
RECURSIVE LastNewline(_, _, _)
LastNewline(s, a, b) ==
    IF b < a THEN 0 ELSE IF s[b] = "\n" THEN b ELSE LastNewline(s, a, b - 1)

\* the same pattern followed by \s*\n, tried at the index p: the index of the
\* "\n" that ends the match, 0 if there is no match
Pattern2End(s, p) ==
    IF Pattern1End(s, p) = 0 THEN 0
    ELSE LastNewline(s, Pattern1End(s, p) + 1, SkipSpace(s, Pattern1End(s, p) + 1) - 1)

\* \1// console.\2( for the match that begins at the index p
Replacement1(s, p) ==
    SubSeq(s, p, SkipSpace(s, p) - 1)
        \o <<"/", "/", " ", "console.", s[SkipSpace(s, p) + 1], "(">>

\* \1// console.\2(\n for the match that begins at the index p
Replacement2(s, p) == Append(Replacement1(s, p), "\n")

\* re.sub of the first pattern from the index p on: matches are taken from left
\* to right and do not overlap
RECURSIVE Sub1From(_, _)
Sub1From(s, p) ==
    IF p > Len(s) THEN <<>>
    ELSE IF Pattern1End(s, p) # 0
         THEN Replacement1(s, p) \o Sub1From(s, Pattern1End(s, p) + 1)
         ELSE <<s[p]>> \o Sub1From(s, p + 1)

\* re.sub of the second pattern from the index p on
RECURSIVE Sub2From(_, _)
Sub2From(s, p) ==
    IF p > Len(s) THEN <<>>
    ELSE IF Pattern2End(s, p) # 0
         THEN Replacement2(s, p) \o Sub2From(s, Pattern2End(s, p) + 1)
         ELSE <<s[p]>> \o Sub2From(s, p + 1)

\* for pattern, replacement in patterns: content = re.sub(...)
ApplyPatterns(s) == Sub2From(Sub1From(s, 1), 1)

\* str.splitlines(): the lines without their "\n"
SplitLines(s) ==
    [n \in 1..Len(ReadLines(s)) |->
        LET l == ReadLines(s)[n]
        IN  IF l[Len(l)] = "\n" THEN SubSeq(l, 1, Len(l) - 1) ELSE l]

\* len([1 for a, b in zip(a.splitlines(), b.splitlines()) if a != b]): zip stops
\* with the shorter list
CountChanges(a, b) ==
    Cardinality({n \in 1..Len(SplitLines(a)) :
                    n <= Len(SplitLines(b)) /\ SplitLines(a)[n] # SplitLines(b)[n]})

(***************************************************************************)
(* The files the model runs on.                                            *)
(***************************************************************************)
\* lines of the shapes the scanner and the counter tell apart, each with its "\n"
CoreLines ==
    { <<"console.", "log", "(", ")", ";", "\n">>,
      <<" ", "console.", "warn", "(", "\n">>,
      <<"console.", "log", "(", BT, "\n">>,
      <<"/", "/", " ", "console.", "log", "(", ")", "\n">>,
      <<"x", " ", "console.", "error", "(", ")", "\n">>,
      <<"console.", "log", "x", "(", ")", "\n">>,
      <<"console.", "debug", "(", ")", "\n">>,
      <<"console.", "info", "(", ")", " ", "/", "/", " ", "console.", "info", "\n">>,
      <<")", ";", "\n">>,
      <<BT, ")", ";", "\n">>,
      <<"x", "(", "\n">>,
      <<"x", "\n">> }

\* one-line shapes: indent, text before the call, receiver, method, text after the
\* method, arguments, terminator, end of line
WideLines ==
    { ind \o lead \o recv \o meth \o more \o args \o semi \o eol :
        ind \in {<<>>, <<" ">>},
        lead \in {<<>>, Marker, <<"/", "/">>, <<"x", " ">>},
        recv \in {<<>>, <<"console.">>},
        meth \in {<<>>, <<"log">>, <<"error">>, <<"warn">>, <<"info">>, <<"debug">>},
        more \in {<<>>, <<"x">>, <<" ">>},
        args \in {<<>>, <<"(">>, <<"(", ")">>, <<"(", BT>>},
        semi \in {<<>>, <<";">>},
        eol \in {<<>>, <<"\n">>} }

RECURSIVE SeqsUpTo(_, _)
SeqsUpTo(S, n) ==
    IF n = 0 THEN {<<>>}
    ELSE LET shorter == SeqsUpTo(S, n - 1)
         IN  shorter \cup {Append(q, x) : q \in shorter, x \in S}

\* the contents a file may have: up to MaxLines core lines, or a single wide line
Contents ==
    {WriteLines(ls) : ls \in SeqsUpTo(CoreLines, MaxLines)} \cup WideLines

\* the contents main() is run on: no call at all, a call of another method, one
\* call, a call in the middle of a line, a call inside a template literal, a call
\* before a comment
MainContents ==
    { <<"x", "\n">>,
      <<"console.", "debug", "(", ")", "\n">>,
      <<"console.", "log", "(", ")", ";", "\n">>,
      <<"x", " ", "console.", "error", "(", ")", "\n">>,
      <<"console.", "log", "(", BT, "\n", "console.", "log", "(", ")", ";", "\n">>,
      <<"console.", "info", "(", ")", " ", "/", "/", " ", "console.", "info", "\n">>,
      <<"x", " ", "console.", "error", "(", ")", "\n",
        "console.", "info", "(", ")", " ", "/", "/", " ", "console.", "info", "\n">> }

\* the pieces of the texts remove_console_logs.py is run on: a character and a
\* newline, calls at the start of a line and after an indent, a call whose "("
\* stands on the next line or after a space, a commented call
V1Lines ==
    { <<"x">>,
      <<"\n">>,
      <<"console.", "log", "(", ")", ";", "\n">>,
      <<" ", "console.", "error", "(", "x", ")", "\n">>,
      <<"console.", "log", "\n">>,
      <<"(", "x", ")", ";", "\n">>,
      <<"console.", "warn", " ", "(", "\n">>,
      <<"/", "/", " ", "console.", "log", "(", ")", "\n">> }

\* the contents of the first file: up to MaxLines pieces
V1Contents == {Flatten(q) : q \in SeqsUpTo(V1Lines, MaxLines)}

\* the contents of the other files
V1SmallContents == {<<"x", "\n">>, <<"console.", "log", "(", ")", ";", "\n">>}

\* the head of the list files_to_process of main()
AllFiles ==
    <<"index.ts", "content-extractor.ts", "agent-page-generator.ts",
      "browser-agent-generator.ts", "devtools-elements.ts">>

files_to_process == SubSeq(AllFiles, 1, NumFiles)

FileNames == {files_to_process[n] : n \in 1..NumFiles}

\* what open() does with a path: "missing", "ok", "readonly" (open(.., 'w')
\* raises), "unreadable" (open(.., 'r') or the decoding raises)
Status == {"missing", "ok", "readonly", "unreadable"}

Entry(st, c) == [status |-> st, content |-> c]

(***************************************************************************)
(* State.                                                                  *)
(***************************************************************************)
VARIABLES
    disk,                  \* path -> [status, content]
    src_dir_exists,        \* src_dir.exists()
    pc,                    \* where control is
    caller,                \* who called comment_out_console_statements
    file_path,             \* its argument
    lines, i, modified,    \* its locals
    ret,                   \* its last return value
    k,                     \* main: 1-based position in files_to_process
    before_count, after_count, total_files_modified,
    report,                \* main: what was printed, one record per file
    passes,                \* harness: calls made so far
    orig,                  \* history: the disk at the start
    input,                 \* history: the lines as the current call read them
    hist,                  \* history: per call, the file and the content it read
    calls,                 \* history: per finished call, what it read, did and returned
    spans,                 \* history: per match of the current call, <<start, end>>
    examined,              \* history: the values of i at the top of the while body
    writes,                \* history: path -> number of times it was written
    content, original_content, changes,  \* remove_console_logs.py: locals of the function
    total_changes,         \* remove_console_logs.py: main's sum
    argv_all,              \* remove_console_logs.py: '--all' in sys.argv
    found                  \* remove_console_logs.py: the files of rglob still to do

vars == <<disk, src_dir_exists, pc, caller, file_path, lines, i, modified, ret, k,
          before_count, after_count, total_files_modified, report, passes, orig,
          input, hist, calls, spans, examined, writes, content, original_content,
          changes, total_changes, argv_all, found>>

fnLocals == <<file_path, lines, i, modified, input, spans, examined>>
mainLocals == <<k, before_count, after_count, total_files_modified, report>>
v1Locals == <<content, original_content, changes, total_changes, argv_all, found>>

\* the file the harness works on
TheFile == files_to_process[1]

InitCommon ==
    /\ orig = disk
    /\ file_path = TheFile
    /\ lines = <<>> /\ i = 0 /\ modified = FALSE /\ ret = FALSE
    /\ k = 1 /\ before_count = 0 /\ after_count = 0 /\ total_files_modified = 0
    /\ report = <<>>
    /\ passes = 0
    /\ input = <<>> /\ hist = <<>> /\ calls = <<>> /\ spans = <<>> /\ examined = <<>>
    /\ writes = [f \in DOMAIN disk |-> 0]
    /\ content = <<>> /\ original_content = <<>> /\ changes = 0 /\ total_changes = 0
    /\ found = <<>>

\* the harness: one file, the others missing; a caller of the function alone
Init ==
    /\ \E e \in {Entry("ok", c) : c \in Contents}
              \cup {Entry("readonly", c) : c \in MainContents}
              \cup {Entry("unreadable", <<>>), Entry("missing", <<>>)} :
          disk = [f \in FileNames |-> IF f = TheFile THEN e ELSE Entry("missing", <<>>)]
    /\ src_dir_exists = TRUE
    /\ pc = "idle"
    /\ caller = "harness"
    /\ argv_all = FALSE
    /\ InitCommon

\* the script: main() on a src directory
InitMain ==
    /\ \/ /\ src_dir_exists = TRUE
          /\ disk \in [FileNames ->
                          {Entry("ok", c) : c \in MainContents}
                          \cup {Entry("readonly", c) : c \in MainContents}
                          \cup {Entry("unreadable", <<>>), Entry("missing", <<>>)}]
       \/ /\ src_dir_exists = FALSE
          /\ disk = [f \in FileNames |-> Entry("missing", <<>>)]
    /\ pc = "start"
    /\ caller = "main"
    /\ argv_all = FALSE
    /\ InitCommon

(***************************************************************************)
(* comment_out_console_statements(file_path), one action per step.         *)
(***************************************************************************)
\* where an exception nobody catches ends: main() has no try, so it ends main
Raise == IF caller = "main" THEN "crashed" ELSE "raised"

\* where the function returns to
Return == IF caller = "main" THEN "returned" ELSE "idle"

\* open(file_path, 'r') succeeds and the content decodes
Readable(f) == disk[f].status \in {"ok", "readonly"}

\* open(file_path, 'w') succeeds
Writable(f) == disk[f].status = "ok"

\* Rewritten that comments every line of the resolved span
RewrittenWholeSpan(ls, i0) ==
    [n \in 1..Len(ls) |->
        IF i0 + 1 <= n /\ n <= SpanEnd(ls, i0) + 1 THEN CommentOut(ls[n]) ELSE ls[n]]

\* the list after lines[i] = indent + '// ' + stripped at index i0: no other
\* line is assigned
Rewritten(ls, i0) == [ls EXCEPT ![i0 + 1] = CommentOut(ls[i0 + 1])]

\* MustWrite without the test: the file is written back after every scan
MustWriteAlways(m) == TRUE

\* if modified: the file is written only then
MustWrite(m) == m

\* ModifiedAtStart that keeps the flag of the call before
ModifiedLeftOver == modified

\* modified = False at the head of every call
ModifiedAtStart == FALSE

\* the record of a call that returns r
Finished(r) ==
    [ret |-> r, input |-> input, output |-> lines, spans |-> spans, examined |-> examined]

\* with open(file_path, 'r') as f: lines = f.readlines(); modified = False; i = 0
Read ==
    /\ pc = "read"
    /\ IF Readable(file_path)
       THEN /\ lines' = ReadLines(disk[file_path].content)
            /\ input' = ReadLines(disk[file_path].content)
            /\ i' = 0
            /\ modified' = ModifiedAtStart
            /\ spans' = <<>>
            /\ examined' = <<>>
            /\ hist' = Append(hist, [file |-> file_path, content |-> disk[file_path].content])
            /\ pc' = "scan"
       ELSE /\ pc' = Raise
            /\ UNCHANGED <<lines, input, i, modified, spans, examined, hist>>
    /\ UNCHANGED <<v1Locals, disk, src_dir_exists, caller, file_path, ret, mainLocals, passes,
                   orig, calls, writes>>

\* one iteration of while i < len(lines), its inner loops included
ScanStep ==
    /\ pc = "scan"
    /\ i < Len(lines)
    /\ examined' = Append(examined, i)
    /\ LET line == lines[i + 1]
           stripped == LStrip(line)
       IN  IF IsMatch(stripped)
           THEN /\ lines' = Rewritten(lines, i)
                /\ modified' = TRUE
                /\ spans' = Append(spans, <<i, SpanEnd(lines, i)>>)
                /\ i' = SpanEnd(lines, i) + 1
           ELSE /\ i' = i + 1
                /\ UNCHANGED <<lines, modified, spans>>
    /\ UNCHANGED <<v1Locals, disk, src_dir_exists, pc, caller, file_path, ret, mainLocals, passes,
                   orig, input, hist, calls, writes>>

\* the loop is left: if modified, go on to write, else return False
ScanEnd ==
    /\ pc = "scan"
    /\ i >= Len(lines)
    /\ IF MustWrite(modified)
       THEN /\ pc' = "write"
            /\ UNCHANGED <<ret, calls>>
       ELSE /\ pc' = Return
            /\ ret' = FALSE
            /\ calls' = Append(calls, Finished(FALSE))
    /\ UNCHANGED <<v1Locals, disk, src_dir_exists, caller, fnLocals, mainLocals, passes, orig,
                   hist, writes>>

\* with open(file_path, 'w') as f: f.writelines(lines); return True
Write ==
    /\ pc = "write"
    /\ IF Writable(file_path)
       THEN /\ disk' = [disk EXCEPT ![file_path].content = WriteLines(lines)]
            /\ writes' = [writes EXCEPT ![file_path] = @ + 1]
            /\ ret' = TRUE
            /\ calls' = Append(calls, Finished(TRUE))
            /\ pc' = Return
       ELSE /\ pc' = Raise
            /\ UNCHANGED <<disk, writes, ret, calls>>
    /\ UNCHANGED <<v1Locals, src_dir_exists, caller, fnLocals, mainLocals, passes, orig, hist>>

\* a caller other than main() calls the function on the file, again and again
Call ==
    /\ pc = "idle"
    /\ passes < MaxPasses
    /\ passes' = passes + 1
    /\ pc' = "read"
    /\ UNCHANGED <<v1Locals, disk, src_dir_exists, caller, fnLocals, ret, mainLocals, orig, hist,
                   calls, writes>>

(***************************************************************************)
(* main(), one action per step.                                            *)
(***************************************************************************)
Printed(f, st, n) == [file |-> f, status |-> st, n |-> n]

\* Exists without the test: every listed file is taken to be there
ExistsAlways(f) == TRUE

\* file_path.exists()
Exists(f) == disk[f].status # "missing"

\* if not src_dir.exists(): print(...); sys.exit(1)
MainStart ==
    /\ pc = "start"
    /\ pc' = IF src_dir_exists THEN "loop" ELSE "exit1"
    /\ UNCHANGED <<v1Locals, disk, src_dir_exists, caller, fnLocals, ret, mainLocals, passes, orig,
                   hist, calls, writes>>

\* for file_name in files_to_process: if file_path.exists(): ... else: print(File not found)
LoopNext ==
    /\ pc = "loop"
    /\ k <= Len(files_to_process)
    /\ LET f == files_to_process[k]
       IN  IF Exists(f)
           THEN /\ pc' = "count_before"
                /\ file_path' = f
                /\ UNCHANGED <<k, report>>
           ELSE /\ report' = Append(report, Printed(f, "not_found", 0))
                /\ k' = k + 1
                /\ UNCHANGED <<pc, file_path>>
    /\ UNCHANGED <<v1Locals, disk, src_dir_exists, caller, lines, i, modified, input, spans,
                   examined, ret,
                   before_count, after_count, total_files_modified, passes, orig, hist,
                   calls, writes>>

\* before_count = count_active_console_statements(file_path); if before_count > 0: ...
CountBefore ==
    /\ pc = "count_before"
    /\ IF Readable(file_path)
       THEN LET n == count_active_console_statements(disk[file_path].content)
            IN  /\ before_count' = n
                /\ IF n > 0
                   THEN /\ pc' = "read"
                        /\ UNCHANGED <<k, report>>
                   ELSE /\ report' = Append(report, Printed(file_path, "no_active", 0))
                        /\ k' = k + 1
                        /\ pc' = "loop"
       ELSE /\ pc' = Raise
            /\ UNCHANGED <<before_count, k, report>>
    /\ UNCHANGED <<v1Locals, disk, src_dir_exists, caller, fnLocals, ret, after_count,
                   total_files_modified, passes, orig, hist, calls, writes>>

\* if comment_out_console_statements(file_path): ... else: print(No changes made)
AfterRewrite ==
    /\ pc = "returned"
    /\ IF ret
       THEN /\ pc' = "count_after"
            /\ UNCHANGED <<k, report>>
       ELSE /\ report' = Append(report, Printed(file_path, "no_changes", 0))
            /\ k' = k + 1
            /\ pc' = "loop"
    /\ UNCHANGED <<v1Locals, disk, src_dir_exists, caller, fnLocals, ret, before_count, after_count,
                   total_files_modified, passes, orig, hist, calls, writes>>

\* after_count = count_active_console_statements(file_path); print(Commented
\* before_count - after_count); total_files_modified += 1
CountAfter ==
    /\ pc = "count_after"
    /\ IF Readable(file_path)
       THEN LET n == count_active_console_statements(disk[file_path].content)
            IN  /\ after_count' = n
                /\ report' = Append(report, Printed(file_path, "commented", before_count - n))
                /\ total_files_modified' = total_files_modified + 1
                /\ k' = k + 1
                /\ pc' = "loop"
       ELSE /\ pc' = Raise
            /\ UNCHANGED <<after_count, report, total_files_modified, k>>
    /\ UNCHANGED <<v1Locals, disk, src_dir_exists, caller, fnLocals, ret, before_count, passes,
                   orig, hist, calls, writes>>

\* the list is exhausted: print(Modified total_files_modified files)
LoopEnd ==
    /\ pc = "loop"
    /\ k > Len(files_to_process)
    /\ pc' = "done"
    /\ UNCHANGED <<v1Locals, disk, src_dir_exists, caller, fnLocals, ret, mainLocals, passes, orig,
                   hist, calls, writes>>

(***************************************************************************)
(* remove_console_logs.py: its function and its main(), one action per step. *)
(***************************************************************************)
\* what main() of remove_console_logs.py does not use
v2Only == <<lines, i, modified, ret, before_count, after_count, total_files_modified,
            passes, input, hist, spans, examined>>

\* a file that src_dir.rglob finds besides the listed ones
RglobNames == {"helper.js"}

\* the record of a finished call of the function of remove_console_logs.py
V1Finished(w) ==
    [file |-> file_path, original_content |-> original_content, content |-> content,
     changes |-> changes, wrote |-> w]

\* the orders in which rglob may yield the files of the set S
Orders(S) ==
    {q \in [1..Cardinality(S) -> S] : \A a, b \in 1..Cardinality(S) : q[a] = q[b] => a = b}

\* remove_console_logs.py, main() on a src directory: the first listed file has
\* any of V1Contents, the others little; without --all no other file matters
InitV1 ==
    /\ \/ /\ src_dir_exists = TRUE
          /\ argv_all \in BOOLEAN
          /\ \E c \in V1Contents :
             \E e2 \in {Entry("ok", <<"x", "\n">>),
                        Entry("readonly", <<"console.", "log", "(", ")", ";", "\n">>),
                        Entry("unreadable", <<>>), Entry("missing", <<>>)} :
             \E rest \in [{n \in 3..NumFiles : TRUE} ->
                            {Entry("ok", <<"console.", "log", "(", ")", ";", "\n">>),
                             Entry("missing", <<>>)}] :
             \E g \in [RglobNames ->
                            IF argv_all
                            THEN {Entry("ok", d) : d \in V1SmallContents}
                            ELSE {Entry("missing", <<>>)}] :
                disk = [f \in FileNames \cup RglobNames |->
                           IF f \in RglobNames THEN g[f]
                           ELSE IF f = files_to_process[1] THEN Entry("ok", c)
                           ELSE IF f = files_to_process[2] THEN e2
                           ELSE rest[CHOOSE n \in 3..NumFiles : files_to_process[n] = f]]
       \/ /\ src_dir_exists = FALSE
          /\ argv_all = FALSE
          /\ disk = [f \in FileNames \cup RglobNames |-> Entry("missing", <<>>)]
    /\ pc = "v1_start"
    /\ caller = "main_v1"
    /\ InitCommon

\* if not src_dir.exists(): print(...); sys.exit(1)
V1MainStart ==
    /\ pc = "v1_start"
    /\ pc' = IF src_dir_exists THEN "v1_loop" ELSE "v1_exit1"
    /\ UNCHANGED <<disk, src_dir_exists, caller, file_path, k, report, orig, calls,
                   writes, v1Locals, v2Only>>

\* for file_name in files_to_process: if file_path.exists(): call the function,
\* else: print(File not found)
V1LoopNext ==
    /\ pc = "v1_loop"
    /\ k <= Len(files_to_process)
    /\ LET f == files_to_process[k]
       IN  IF Exists(f)
           THEN /\ pc' = "v1_read"
                /\ file_path' = f
                /\ UNCHANGED <<k, report>>
           ELSE /\ report' = Append(report, Printed(f, "not_found", 0))
                /\ k' = k + 1
                /\ UNCHANGED <<pc, file_path>>
    /\ UNCHANGED <<disk, src_dir_exists, caller, orig, calls, writes, v1Locals, v2Only>>

\* with open(file_path, 'r') as f: content = f.read(); original_content = content
V1Read ==
    /\ pc = "v1_read"
    /\ IF Readable(file_path)
       THEN /\ content' = disk[file_path].content
            /\ original_content' = disk[file_path].content
            /\ pc' = "v1_sub"
       ELSE /\ pc' = "v1_crashed"
            /\ UNCHANGED <<content, original_content>>
    /\ UNCHANGED <<disk, src_dir_exists, caller, file_path, k, report, orig, calls,
                   writes, changes, total_changes, argv_all, found, v2Only>>

\* the loop over patterns, then changes = the number of line pairs that differ
V1Sub ==
    /\ pc = "v1_sub"
    /\ content' = ApplyPatterns(content)
    /\ changes' = CountChanges(original_content, ApplyPatterns(content))
    /\ pc' = "v1_write"
    /\ UNCHANGED <<disk, src_dir_exists, caller, file_path, k, report, orig, calls,
                   writes, original_content, total_changes, argv_all, found, v2Only>>

\* if changes > 0: write content and print, else: print(No changes needed);
\* return changes; in main(): total_changes += changes
V1Finish ==
    /\ pc = "v1_write"
    /\ IF changes > 0 /\ ~Writable(file_path)
       THEN /\ pc' = "v1_crashed"
            /\ UNCHANGED <<disk, writes, calls, report, total_changes, k>>
       ELSE /\ IF changes > 0
               THEN /\ disk' = [disk EXCEPT ![file_path].content = content]
                    /\ writes' = [writes EXCEPT ![file_path] = @ + 1]
                    /\ report' = Append(report, Printed(file_path, "commented", changes))
               ELSE /\ report' = Append(report, Printed(file_path, "no_changes", 0))
                    /\ UNCHANGED <<disk, writes>>
            /\ calls' = Append(calls, V1Finished(changes > 0))
            /\ total_changes' = total_changes + changes
            /\ IF k <= Len(files_to_process)
               THEN k' = k + 1 /\ pc' = "v1_loop"
               ELSE pc' = "v1_all" /\ UNCHANGED k
    /\ UNCHANGED <<src_dir_exists, caller, file_path, orig, content, original_content,
                   changes, argv_all, found, v2Only>>

\* the list is exhausted: print(Total lines modified); if '--all' in sys.argv:
\* the files of rglob whose name is not in the list, in some order
V1LoopEnd ==
    /\ pc = "v1_loop"
    /\ k > Len(files_to_process)
    /\ IF argv_all
       THEN /\ pc' = "v1_all"
            /\ found' \in Orders({f \in DOMAIN disk : Exists(f) /\ f \notin FileNames})
       ELSE /\ pc' = "v1_done"
            /\ UNCHANGED found
    /\ UNCHANGED <<disk, src_dir_exists, caller, file_path, k, report, orig, calls,
                   writes, content, original_content, changes, total_changes, argv_all,
                   v2Only>>

\* for file_path in src_dir.rglob(ext): call the function; at the end
\* print(Grand total lines modified)
V1AllNext ==
    /\ pc = "v1_all"
    /\ IF found # <<>>
       THEN /\ file_path' = Head(found)
            /\ found' = Tail(found)
            /\ pc' = "v1_read"
       ELSE /\ pc' = "v1_done"
            /\ UNCHANGED <<file_path, found>>
    /\ UNCHANGED <<disk, src_dir_exists, caller, k, report, orig, calls, writes, content,
                   original_content, changes, total_changes, argv_all, v2Only>>

(***************************************************************************)
(* Specifications.                                                         *)
(***************************************************************************)
Next == Call \/ Read \/ ScanStep \/ ScanEnd \/ Write

NextMain ==
    \/ MainStart \/ LoopNext \/ CountBefore \/ AfterRewrite \/ CountAfter \/ LoopEnd
    \/ Read \/ ScanStep \/ ScanEnd \/ Write

\* calls of comment_out_console_statements on one file
Spec == Init /\ [][Next]_vars

\* a run of the script
SpecMain == InitMain /\ [][NextMain]_vars

\* the function under a caller that keeps running: a step that can be taken is
\* taken
SpecLive == Init /\ [][Next]_vars /\ WF_vars(Next)

NextV1 ==
    V1MainStart \/ V1LoopNext \/ V1Read \/ V1Sub \/ V1Finish \/ V1LoopEnd \/ V1AllNext

\* the script remove_console_logs.py
SpecV1 == InitV1 /\ [][NextV1]_vars

(***************************************************************************)
(* Vocabulary of the properties.                                           *)
(***************************************************************************)
\* a call of comment_out_console_statements made by the harness has returned
PassDone == pc = "idle" /\ calls # <<>>

\* the last finished call
Last == calls[Len(calls)]

\* the file as it is on disk, line by line
OnDisk(f) == ReadLines(disk[f].content)

\* the trimmed content of the line begins with console.log / .error / .warn / .info
BeginsWithCall(line) ==
    \E method \in Methods : StartsWith(LStrip(line), <<"console.", method>>)

\* line n (1-based) is the start line of a span of the call c
IsStart(c, n) == \E q \in 1..Len(c.spans) : c.spans[q][1] = n - 1

\* line n (1-based) is a continuation line of a span of the call c
IsContinuation(c, n) ==
    \E q \in 1..Len(c.spans) : c.spans[q][1] < n - 1 /\ n - 1 <= c.spans[q][2]

\* the line out is the line in with '// ' put after its leading whitespace
CommentedAfterIndent(in, out) == StartsWith(out, Indent(in) \o <<"/", "/", " ">>)

(***************************************************************************)
(* C1                                                                      *)
(***************************************************************************)
\* C1 as stated: after a pass, every line of the input whose trimmed content
\* begins with the call prefix begins, after its leading whitespace, with '// '
\* in the file on disk, wherever the line sits.
C1_EveryCallLineCommented ==
    PassDone =>
        \A n \in 1..Len(Last.input) :
            BeginsWithCall(Last.input[n]) =>
                /\ n <= Len(OnDisk(file_path))
                /\ CommentedAfterIndent(Last.input[n], OnDisk(file_path)[n])

\* C1 amended: after a pass, every line of the input whose trimmed content begins
\* with the call prefix and that is not a continuation line of the span of an
\* earlier matched line begins, after its leading whitespace, with '// ' in the
\* file on disk.
C1_CallLineOutsideSpanCommented ==
    PassDone =>
        \A n \in 1..Len(Last.input) :
            (BeginsWithCall(Last.input[n]) /\ ~IsContinuation(Last, n)) =>
                /\ n <= Len(OnDisk(file_path))
                /\ CommentedAfterIndent(Last.input[n], OnDisk(file_path)[n])

\* C1 witness: a pass is over in which a line after a multi-line span began with
\* the call prefix and was commented
C1_Witness ==
    /\ PassDone
    /\ Len(calls) = 1
    /\ \E n \in 2..Len(Last.input) :
        /\ BeginsWithCall(Last.input[n])
        /\ IsContinuation(Last, n - 1)
        /\ ~IsContinuation(Last, n)
        /\ CommentedAfterIndent(Last.input[n], OnDisk(file_path)[n])

(***************************************************************************)
(* C2                                                                      *)
(***************************************************************************)
\* the two passes the harness made are over
TwoPasses == pc = "idle" /\ Len(calls) = 2

\* the second pass changed nothing, returned False and did not write
SecondPassIdle ==
    /\ calls[2].output = calls[2].input
    /\ disk[file_path].content = hist[2].content
    /\ calls[2].ret = FALSE
    /\ writes[file_path] = IF calls[1].ret THEN 1 ELSE 0

\* no continuation line of a span of the call c begins with the call prefix
NoCallInsideSpan(c) ==
    \A n \in 1..Len(c.input) : IsContinuation(c, n) => ~BeginsWithCall(c.input[n])

\* C2 as stated: a second pass over the output of a first pass changes nothing,
\* returns False and does not write the file.
C2_Idempotent == TwoPasses => SecondPassIdle

\* C2 amended: when no continuation line of a span the first pass resolved begins
\* with the call prefix, a second pass over the output of the first changes
\* nothing, returns False and does not write the file; in every case the second
\* pass changes only lines that were such continuation lines in the first pass.
C2_IdempotentOutsideSpans ==
    TwoPasses =>
        /\ NoCallInsideSpan(calls[1]) => SecondPassIdle
        /\ \A n \in 1..Len(calls[2].input) :
            calls[2].output[n] # calls[2].input[n] => IsContinuation(calls[1], n)

\* C2 witness: the first pass commented the start of a multi-line span whose
\* continuation lines hold no call, and the second pass is over
C2_Witness ==
    /\ TwoPasses
    /\ calls[1].ret = TRUE
    /\ NoCallInsideSpan(calls[1])
    /\ \E n \in 1..Len(calls[1].input) : IsContinuation(calls[1], n)
    /\ calls[2].ret = FALSE

(***************************************************************************)
(* C3                                                                      *)
(***************************************************************************)
\* C3 as stated: count_active_console_statements returns 0 on the file a pass of
\* comment_out_console_statements leaves on disk.
C3_NoActiveAfterPass ==
    PassDone => count_active_console_statements(disk[file_path].content) = 0

(***************************************************************************)
(* C4                                                                      *)
(***************************************************************************)
\* C4: a pass keeps the number and the order of the lines, and changes no line
\* but the start lines of the spans it resolved: continuation lines and lines
\* outside every span are the same in memory and on disk as they were read.
C4_Frame ==
    /\ pc \in {"scan", "write"} =>
        /\ Len(lines) = Len(input)
        /\ \A n \in 1..Len(input) :
            lines[n] # input[n] => \E q \in 1..Len(spans) : spans[q][1] = n - 1
    /\ PassDone =>
        /\ Len(OnDisk(file_path)) = Len(Last.input)
        /\ \A n \in 1..Len(Last.input) :
            /\ ~IsStart(Last, n) => OnDisk(file_path)[n] = Last.input[n]
            /\ EndsWith(OnDisk(file_path)[n], LStrip(Last.input[n]))

\* C4 witness: a pass wrote a file in which a span had a continuation line and a
\* line lay outside every span
C4_Witness ==
    /\ PassDone
    /\ Last.ret = TRUE
    /\ \E n \in 1..Len(Last.input) : IsContinuation(Last, n)
    /\ \E n \in 1..Len(Last.input) : ~IsContinuation(Last, n) /\ ~IsStart(Last, n)

(***************************************************************************)
(* C5                                                                      *)
(***************************************************************************)
\* the trimmed content of the line begins with '//'
BeginsWithComment(line) == StartsWith(LStrip(line), <<"/", "/">>)

\* C5: a line whose trimmed content begins with '//' is never the start of a
\* span, is the same after a pass as before, and is not counted as active.
C5_NoDoubleComment ==
    PassDone =>
        \A n \in 1..Len(Last.input) :
            BeginsWithComment(Last.input[n]) =>
                /\ ~IsStart(Last, n)
                /\ OnDisk(file_path)[n] = Last.input[n]
                /\ ~LineIsActive(Body(Last.input[n]))
                /\ count_active_console_statements(Last.input[n]) = 0

\* C5 witness: a pass that wrote the file examined a line reading // console.<method>
C5_Witness ==
    /\ PassDone
    /\ Last.ret = TRUE
    /\ \E n \in 1..Len(Last.input) :
        /\ \E method \in Methods :
            StartsWith(LStrip(Last.input[n]), <<"/", "/", " ", "console.", method>>)
        /\ ~IsContinuation(Last, n)

(***************************************************************************)
(* C6                                                                      *)
(***************************************************************************)
\* w is the length of the leading whitespace of the line
LeadingSpace(line, w) ==
    /\ \A p \in 1..w : IsSpace(line[p])
    /\ w < Len(line) => ~IsSpace(line[w + 1])

\* C6: the start line of a span, with leading whitespace W and trimmed content T
\* (its terminator included), is W + '// ' + T after the pass; taking the three
\* characters after W away gives the line back.
C6_Shape ==
    PassDone =>
        \A n \in 1..Len(Last.input) :
            IsStart(Last, n) =>
                LET in == Last.input[n]
                    out == OnDisk(file_path)[n]
                IN  \E w \in 0..Len(in) :
                        /\ LeadingSpace(in, w)
                        /\ out = SubSeq(in, 1, w) \o <<"/", "/", " ">> \o SubSeq(in, w + 1, Len(in))
                        /\ Len(out) = Len(in) + 3
                        /\ SubSeq(out, 1, w) \o SubSeq(out, w + 4, Len(out)) = in
                        /\ EndsWith(out, <<"\n">>) <=> EndsWith(in, <<"\n">>)

\* C6 witness: a pass commented an indented line that ends with its terminator
C6_Witness ==
    /\ PassDone
    /\ \E n \in 1..Len(Last.input) :
        /\ IsStart(Last, n)
        /\ Indent(Last.input[n]) # <<>>
        /\ EndsWith(Last.input[n], <<"\n">>)
        /\ OnDisk(file_path)[n] # Last.input[n]

(***************************************************************************)
(* C7                                                                      *)
(***************************************************************************)
\* t is 'console.' + one of the four methods + optional whitespace + '('
CallPrefix(t) ==
    /\ Len(t) >= 2 /\ t[1] = "console." /\ t[2] \in Methods
    /\ \E p \in 3..Len(t) :
        /\ t[p] = "("
        /\ \A q \in 3..(p - 1) : IsSpace(t[q])

\* C7 as stated: a line is the start of a span only if its trimmed content is
\* 'console.' + log/error/warn/info + optional whitespace + '('; a line that
\* begins with 'console.' followed by anything else is left unchanged.
C7_MatchRule ==
    PassDone =>
        \A n \in 1..Len(Last.input) :
            LET t == LStrip(Last.input[n])
            IN  /\ IsStart(Last, n) => CallPrefix(t)
                /\ (StartsWith(t, <<"console.">>) /\ ~CallPrefix(t)) =>
                        OnDisk(file_path)[n] = Last.input[n]

(***************************************************************************)
(* C8                                                                      *)
(***************************************************************************)
\* the calls of comment_out_console_statements made on the file f
CallsOn(f) == {q \in 1..Len(hist) : hist[q].file = f}

\* main() has stopped
Stopped == pc \in {"done", "crashed"}

\* C8: main() prints one status per entry of the list, in list order; the status
\* is the warning exactly for the missing files, which are neither read nor
\* written; a missing file never ends the run; and at the end of the loop every
\* listed file that exists has had its one turn.
C8_MissingFilesNonFatal ==
    /\ Len(report) <= Len(files_to_process)
    /\ \A j \in 1..Len(report) :
        /\ report[j].file = files_to_process[j]
        /\ report[j].status = "not_found" <=> orig[report[j].file].status = "missing"
    /\ \A f \in FileNames :
        /\ Cardinality(CallsOn(f)) <= 1
        /\ orig[f].status = "missing" =>
            /\ CallsOn(f) = {}
            /\ writes[f] = 0
            /\ disk[f] = orig[f]
    /\ pc = "crashed" => orig[file_path].status # "missing"
    /\ pc = "done" => Len(report) = Len(files_to_process)

\* C8 witness: main() reached its end, the first two files were missing and the
\* third was rewritten
C8_Witness ==
    /\ pc = "done"
    /\ orig[files_to_process[1]].status = "missing"
    /\ orig[files_to_process[2]].status = "missing"
    /\ report[3].status = "commented"
    /\ writes[files_to_process[3]] = 1

(***************************************************************************)
(* C9                                                                      *)
(***************************************************************************)
\* C9 as stated: a failure of reading or writing one file ends that file's turn
\* only: when main() stops, every entry of the list has had its status.
C9_IoFailureIsPerFile ==
    Stopped => Len(report) = Len(files_to_process)

(***************************************************************************)
(* C10                                                                     *)
(***************************************************************************)
\* the content holds no console.log / .error / .warn / .info anywhere
NoCall(c) == \A p \in 1..Len(c) : ~CallAt(c, p)

\* the file f is on disk as it was at the start and was never written
Untouched(f) == writes[f] = 0 /\ disk[f] = orig[f]

\* C10: a file that holds no diagnostic call is never written and never handed to
\* the rewriter, and main() reports it as having no active statement; the rewriter
\* returns False without writing when no line matched, and main() then reports
\* no changes; a file reported either way is as it was.
C10_NoCallNeverWritten ==
    /\ \A f \in FileNames :
        (orig[f].status \in {"ok", "readonly"} /\ NoCall(orig[f].content)) =>
            /\ Untouched(f)
            /\ CallsOn(f) = {}
            /\ \A j \in 1..Len(report) :
                report[j].file = f => report[j].status = "no_active"
    /\ (pc = "returned" /\ spans = <<>>) =>
        /\ ret = FALSE
        /\ Untouched(file_path)
    /\ \A j \in 1..Len(report) :
        /\ report[j].status = "no_active" =>
            CallsOn(report[j].file) = {} /\ Untouched(report[j].file)
        /\ report[j].status = "no_changes" => Untouched(report[j].file)

\* C10 witness: main() reached its end having reported a file without any call
\* as having no active statement and a file in which no line matched as unchanged
C10_Witness ==
    /\ pc = "done"
    /\ \E j \in 1..Len(report) :
        /\ report[j].status = "no_active"
        /\ orig[report[j].file].content # <<>>
        /\ NoCall(orig[report[j].file].content)
    /\ \E j \in 1..Len(report) : report[j].status = "no_changes"

(***************************************************************************)
(* C11                                                                     *)
(***************************************************************************)
\* the index (0-based) m was examined as a candidate start by the call c
Examined(c, m) == \E q \in 1..Len(c.examined) : c.examined[q] = m

\* the last character of t that is no whitespace is neither ';' nor ')'
EndsOpen(t) ==
    \E p \in 1..Len(t) :
        /\ ~IsSpace(t[p])
        /\ \A r \in (p + 1)..Len(t) : IsSpace(t[r])
        /\ t[p] \notin {";", ")"}

\* the number of '(' less the number of ')' in the lines a..b (1-based) of ls
RECURSIVE Total(_, _, _)
Total(ls, a, b) ==
    IF a > b THEN 0
    ELSE Total(ls, a, b - 1)
         + Cardinality({p \in 1..Len(ls[b]) : ls[b][p] = "("})
         - Cardinality({p \in 1..Len(ls[b]) : ls[b][p] = ")"})

\* the start line at index s (0-based) falls under the parenthesis rule
ParenRuleStart(ls, s) ==
    /\ Cardinality({p \in 1..Len(ls[s + 1]) : ls[s + 1][p] = BT}) % 2 = 0
    /\ EndsOpen(LStrip(ls[s + 1]))
    /\ Total(ls, s + 1, s + 1) > 0

\* j (0-based) is the first line after s at which the running total is <= 0
FirstClose(ls, s, j) ==
    /\ s < j /\ j < Len(ls)
    /\ Total(ls, s + 1, j + 1) <= 0
    /\ \A m \in (s + 1)..(j - 1) : Total(ls, s + 1, m + 1) > 0

\* C11: for a matched start line i under the parenthesis rule, the span ends at the
\* first line j > i at which the running total of '(' less ')' is <= 0; the lines
\* i+1..j are not examined and stay as they are, and the next line examined is j+1.
C11_ParenRule ==
    PassDone =>
        \A q \in 1..Len(Last.spans) :
            LET s == Last.spans[q][1]
                e == Last.spans[q][2]
            IN  ParenRuleStart(Last.input, s) =>
                    \A j \in (s + 1)..(Len(Last.input) - 1) :
                        FirstClose(Last.input, s, j) =>
                            /\ e = j
                            /\ \A m \in (s + 1)..j :
                                /\ ~Examined(Last, m)
                                /\ Last.output[m + 1] = Last.input[m + 1]
                            /\ j + 1 < Len(Last.input) => Examined(Last, j + 1)
                            /\ Last.output[s + 1] # Last.input[s + 1]

\* C11 witness: a pass resolved a span by the parenthesis rule, closed on the line
\* after its start, and went on to examine the line after that
C11_Witness ==
    /\ PassDone
    /\ \E q \in 1..Len(Last.spans) :
        LET s == Last.spans[q][1]
        IN  /\ ParenRuleStart(Last.input, s)
            /\ FirstClose(Last.input, s, s + 1)
            /\ Last.spans[q][2] = s + 1
            /\ Examined(Last, s + 2)

(***************************************************************************)
(* C12                                                                     *)
(***************************************************************************)
\* the number of backticks in the line
Backticks(line) == Cardinality({p \in 1..Len(line) : line[p] = BT})

\* j (0-based) is the first line after s that holds a backtick
FirstBacktick(ls, s, j) ==
    /\ s < j /\ j < Len(ls)
    /\ Backticks(ls[j + 1]) > 0
    /\ \A m \in (s + 1)..(j - 1) : Backticks(ls[m + 1]) = 0

\* C12: for a matched start line i with an odd number of backticks, the span ends
\* at the first line j > i that holds a backtick; that line and the lines between
\* stay as they are and are not examined, and the scan resumes at j+1.
C12_TemplateRule ==
    PassDone =>
        \A q \in 1..Len(Last.spans) :
            LET s == Last.spans[q][1]
                e == Last.spans[q][2]
            IN  Backticks(Last.input[s + 1]) % 2 = 1 =>
                    \A j \in (s + 1)..(Len(Last.input) - 1) :
                        FirstBacktick(Last.input, s, j) =>
                            /\ e = j
                            /\ \A m \in (s + 1)..j :
                                /\ ~Examined(Last, m)
                                /\ Last.output[m + 1] = Last.input[m + 1]
                            /\ j + 1 < Len(Last.input) => Examined(Last, j + 1)
                            /\ Last.output[s + 1] # Last.input[s + 1]

\* C12 witness: a pass resolved a span by the template rule, closed on the line
\* after its start, and went on to examine the line after the closing one
C12_Witness ==
    /\ PassDone
    /\ \E q \in 1..Len(Last.spans) :
        LET s == Last.spans[q][1]
        IN  /\ Backticks(Last.input[s + 1]) % 2 = 1
            /\ FirstBacktick(Last.input, s, s + 1)
            /\ Last.spans[q][2] = s + 1
            /\ Examined(Last, s + 2)

(***************************************************************************)
(* C13                                                                     *)
(***************************************************************************)
\* the rule the claim gives the start line at index s (0-based): the template
\* rule for an odd number of backticks, whatever its parentheses; the single line
\* for a line that ends with ';' or ')' or whose own total is <= 0; else the
\* parenthesis rule
RuleOf(ls, s) ==
    IF Backticks(ls[s + 1]) % 2 = 1 THEN "template"
    ELSE IF ~EndsOpen(LStrip(ls[s + 1])) \/ Total(ls, s + 1, s + 1) <= 0 THEN "single"
    ELSE "paren"

\* the line (0-based) that closes the span started at s under the rule, if any
Closes(ls, s, j) ==
    CASE RuleOf(ls, s) = "template" -> FirstBacktick(ls, s, j)
      [] RuleOf(ls, s) = "paren" -> FirstClose(ls, s, j)
      [] OTHER -> FALSE

\* C13: every matched line is resolved by the one rule that the order template,
\* parenthesis, single line gives it: a single-line span is [i, i] and the line
\* i+1 is examined next; a span of the other two rules runs to its closing line,
\* or, with no closing line, over all the lines that follow.
C13_OneRule ==
    PassDone =>
        \A q \in 1..Len(Last.spans) :
            LET s == Last.spans[q][1]
                e == Last.spans[q][2]
                n == Len(Last.input)
            IN  /\ RuleOf(Last.input, s) = "single" =>
                    /\ e = s
                    /\ s + 1 < n => Examined(Last, s + 1)
                /\ RuleOf(Last.input, s) # "single" =>
                    /\ \A j \in (s + 1)..(n - 1) :
                        Closes(Last.input, s, j) =>
                            /\ e = j
                            /\ \A m \in (s + 1)..j : ~Examined(Last, m)
                            /\ j + 1 < n => Examined(Last, j + 1)
                    /\ (\A j \in (s + 1)..(n - 1) : ~Closes(Last.input, s, j)) =>
                            \A m \in (s + 1)..(n - 1) : ~Examined(Last, m)

\* C13 witness: a pass resolved a single-line span, examined the next line, and
\* resolved that one, an odd number of backticks and an open parenthesis on it, by
\* the template rule although the line after it closes the parenthesis
C13_Witness ==
    /\ PassDone
    /\ Len(Last.spans) = 2
    /\ RuleOf(Last.input, Last.spans[1][1]) = "single"
    /\ Last.spans[2][1] = Last.spans[1][1] + 1
    /\ RuleOf(Last.input, Last.spans[2][1]) = "template"
    /\ Total(Last.input, Last.spans[2][1] + 1, Last.spans[2][1] + 1) > 0
    /\ Last.spans[2][1] + 1 < Len(Last.input)
    /\ Total(Last.input, Last.spans[2][1] + 1, Last.spans[2][1] + 2) <= 0
    /\ ~Examined(Last, Last.spans[2][1] + 1)

(***************************************************************************)
(* C14                                                                     *)
(***************************************************************************)
\* the span started at s (0-based) has no closing line in the file
Unclosed(ls, s) ==
    /\ RuleOf(ls, s) # "single"
    /\ \A j \in (s + 1)..(Len(ls) - 1) : ~Closes(ls, s, j)

\* the last line (0-based) that the q-th span of the call c holds: the inner
\* while of the template branch leaves i at len(lines) when no line closes it
SpanLast(c, q) ==
    IF c.spans[q][2] >= Len(c.input) THEN Len(c.input) - 1 ELSE c.spans[q][2]

\* the scan of a pass raises nothing: a pass raises only where it opens the file
C14_NoRaise == pc = "raised" => ~Readable(file_path) \/ ~Writable(file_path)

\* a span with no closing line ends at the last line, only its start line is
\* commented and no line after the start is examined
C14_RunsToEnd ==
    PassDone =>
        \A q \in 1..Len(Last.spans) :
            LET s == Last.spans[q][1]
                n == Len(Last.input)
            IN  Unclosed(Last.input, s) =>
                    /\ SpanLast(Last, q) = n - 1
                    /\ q = Len(Last.spans)
                    /\ Last.output[s + 1] = CommentOut(Last.input[s + 1])
                    /\ \A m \in (s + 1)..(n - 1) :
                        /\ ~Examined(Last, m)
                        /\ Last.output[m + 1] = Last.input[m + 1]

\* C14: the scan of every file ends and raises nothing, and a multi-line call
\* that no line closes takes all the rest of the file for its span: the span ends
\* at the last line, only the start line is commented, no later line is examined.
C14_Unterminated ==
    /\ (pc = "scan") ~> (pc # "scan")
    /\ [](C14_NoRaise /\ C14_RunsToEnd)

\* C14 witness: a pass ended on a file of three lines whose first line opens a
\* call that no line closes, the second of them a call that was left as it was
C14_Witness ==
    /\ PassDone
    /\ Len(Last.input) = 3
    /\ Len(Last.spans) = 1
    /\ Last.spans[1][1] = 0
    /\ Unclosed(Last.input, 0)
    /\ BeginsWithCall(Last.input[2])
    /\ Last.output[2] = Last.input[2]

(***************************************************************************)
(* C15                                                                     *)
(***************************************************************************)
\* from the read to the start of the write the file on disk is the content that
\* was read, and it is the only file the call holds
C15_DiskAsRead ==
    pc \in {"scan", "write"} =>
        /\ disk[file_path].content = hist[Len(hist)].content
        /\ WriteLines(input) = disk[file_path].content
        /\ disk[file_path].content = orig[file_path].content

\* a file is written at most once in each pass over it, and a finished call
\* returns True exactly when it rewrote a line of its own file
C15_OncePerPass ==
    /\ \A f \in FileNames : writes[f] <= Cardinality(CallsOn(f))
    /\ \A q \in 1..Len(calls) : calls[q].ret = (calls[q].spans # <<>>)
    /\ \A q \in 1..Len(calls) : \A p \in 1..Len(calls) :
          calls[q].input = calls[p].input =>
              /\ calls[q].output = calls[p].output
              /\ calls[q].examined = calls[p].examined

\* a step that leaves the read starts the scan on the whole content of the file
\* with the index at 0, no line rewritten and the flag down; the disk changes in
\* the step of the write only, when the scan is over
C15_Steps ==
    /\ (pc = "read" /\ pc' = "scan") =>
          /\ lines' = ReadLines(disk[file_path].content)
          /\ i' = 0
          /\ modified' = FALSE
    /\ disk' # disk =>
          /\ pc = "write"
          /\ i >= Len(lines)
          /\ disk' = [disk EXCEPT ![file_path].content = WriteLines(lines)]

\* C15: a pass reads the whole file, then resolves and rewrites in memory, then
\* writes at most once; until the write starts the file on disk is as it was
\* before the pass; the index, the count and the flag of one file are not carried
\* into the next.
C15_ReadScanWrite == [](C15_DiskAsRead /\ C15_OncePerPass) /\ [][C15_Steps]_vars

\* C15 witness: main() is about to write its second file, rewritten in memory
\* and still untouched on disk, after it wrote the first
C15_Witness ==
    /\ caller = "main"
    /\ pc = "write"
    /\ k = 2
    /\ writes[files_to_process[1]] = 1
    /\ Len(calls) = 1
    /\ lines # input
    /\ disk[file_path].content = orig[file_path].content

(***************************************************************************)
(* C16                                                                     *)
(***************************************************************************)
\* the number of calls the first pattern comments in s from the index p on
RECURSIVE Commented(_, _)
Commented(s, p) ==
    IF p > Len(s) THEN 0
    ELSE IF Pattern1End(s, p) # 0
         THEN 1 + Commented(s, Pattern1End(s, p) + 1)
         ELSE Commented(s, p + 1)

\* the sum of the counts that the calls of cs returned
RECURSIVE SumChanges(_)
SumChanges(cs) == IF cs = <<>> THEN 0 ELSE Head(cs).changes + SumChanges(Tail(cs))

\* the rewritten content has as many lines as the original
C16_LinesKept ==
    \A q \in 1..Len(calls) :
        Len(SplitLines(calls[q].content)) = Len(SplitLines(calls[q].original_content))

\* the count returned is the number of lines that differ, one per commented call
C16_CountIsCalls ==
    \A q \in 1..Len(calls) :
        /\ calls[q].changes = Commented(calls[q].original_content, 1)
        /\ calls[q].changes =
              Cardinality({n \in 1..Len(SplitLines(calls[q].original_content)) :
                  \/ n > Len(SplitLines(calls[q].content))
                  \/ SplitLines(calls[q].content)[n] # SplitLines(calls[q].original_content)[n]})

\* the file is overwritten exactly when the count is > 0, and main's total is the
\* sum of the counts
C16_WriteAndTotal ==
    /\ \A q \in 1..Len(calls) : calls[q].wrote = (calls[q].changes > 0)
    /\ \A f \in DOMAIN disk :
          writes[f] = Cardinality({q \in 1..Len(calls) :
                                      calls[q].file = f /\ calls[q].changes > 0})
    /\ total_changes = SumChanges(calls)

\* C16: the function of remove_console_logs.py keeps the number of lines,
\* returns the number of lines that differ, one per commented call, overwrites
\* the file exactly when that number is > 0, and main() adds the counts up.
C16_V1Counts == C16_LinesKept /\ C16_CountIsCalls /\ C16_WriteAndTotal

(***************************************************************************)
(* C17                                                                     *)
(***************************************************************************)
\* the trimmed content of the line begins with //
AlreadyCommented(line) == StartsWith(LStrip(line), <<"/", "/">>)

\* the indices the scan has examined so far grow strictly, the last of them is
\* below i, and so no line is examined twice
C17_ExaminedOnce ==
    pc = "scan" =>
        /\ \A a, b \in 1..Len(examined) : a < b => examined[a] < examined[b]
        /\ \A a \in 1..Len(examined) : examined[a] < i

\* the spans resolved so far: start <= end, each one wholly before the next, all
\* of them before i, every start examined, matched by the prefix test and not
\* commented before
C17_SpansOrdered ==
    pc = "scan" =>
        /\ \A q \in 1..Len(spans) :
              /\ spans[q][1] <= spans[q][2]
              /\ spans[q][2] < i
              /\ \E a \in 1..Len(examined) : examined[a] = spans[q][1]
              /\ BeginsWithCall(input[spans[q][1] + 1])
              /\ ~AlreadyCommented(input[spans[q][1] + 1])
        /\ \A q \in 1..(Len(spans) - 1) : spans[q][2] < spans[q + 1][1]

\* a line is rewritten at most once: the start of a span holds its input with one
\* marker put in, every other line is as it was read
C17_RewrittenOnce ==
    pc = "scan" =>
        /\ Len(lines) = Len(input)
        /\ \A n \in 1..Len(lines) :
              IF \E q \in 1..Len(spans) : spans[q][1] = n - 1
              THEN lines[n] = CommentOut(input[n])
              ELSE lines[n] = input[n]

\* an iteration of the outer loop moves the index up
C17_IndexGrows == (pc = "scan" /\ pc' = "scan") => i' > i

\* C17: in a pass the line index grows strictly with every iteration of the outer
\* loop, so a line is examined at most once and rewritten at most once; the spans
\* have start <= end, do not overlap, come in increasing order, and each starts
\* on a line that matched the prefix test and was not commented before.
C17_ScanState ==
    [](C17_ExaminedOnce /\ C17_SpansOrdered /\ C17_RewrittenOnce) /\ [][C17_IndexGrows]_vars

\* C17 witness: the scan stands after the third line of a file and has resolved
\* two spans, the first of them of two lines, whose second line was not examined
C17_Witness ==
    /\ pc = "scan"
    /\ i = 3
    /\ Len(spans) = 2
    /\ spans[1] = <<0, 1>>
    /\ spans[2] = <<2, 2>>
    /\ examined = <<0, 2>>
    /\ lines[2] = input[2]

(***************************************************************************)
(* C18                                                                     *)
(***************************************************************************)
\* the line is counted by count_active_console_statements
Active(line) == LineIsActive(Body(line))

\* the number of lines the call c rewrote
Rewrote(c) == Cardinality({n \in 1..Len(c.input) : c.output[n] # c.input[n]})

\* the call that main() made on the file f has returned
CallOf(f, q) == q <= Len(calls) /\ hist[q].file = f

\* in a finished call a rewritten line is not active and the other lines are as
\* they were; main() calls the function on a file with before_count > 0 only
C18_Lines ==
    \A q \in 1..Len(calls) :
        /\ \A n \in 1..Len(calls[q].input) :
              /\ calls[q].output[n] # calls[q].input[n] => ~Active(calls[q].output[n])
              /\ calls[q].output[n] = calls[q].input[n] =>
                    Active(calls[q].output[n]) = Active(calls[q].input[n])
        /\ count_active_console_statements(hist[q].content) > 0

\* the counts of the file just reported as commented: after <= before, and the
\* number printed is their difference, which is >= 0 and not more than the number
\* of lines the pass rewrote
C18_Counts ==
    (pc \in {"loop", "done"} /\ report # <<>> /\ report[Len(report)].status = "commented") =>
        /\ after_count <= before_count
        /\ before_count = count_active_console_statements(orig[file_path].content)
        /\ after_count = count_active_console_statements(disk[file_path].content)
        /\ report[Len(report)].n = before_count - after_count
        /\ report[Len(report)].n >= 0
        /\ \A q \in 1..Len(calls) :
              CallOf(file_path, q) => report[Len(report)].n <= Rewrote(calls[q])

\* a file is counted in total_files_modified exactly when its before_count is
\* > 0 and the pass rewrote at least one of its lines
C18_Total ==
    pc \in {"loop", "done"} =>
        /\ \A e \in 1..Len(report) :
              report[e].status = "commented" <=>
                  /\ count_active_console_statements(orig[report[e].file].content) > 0
                  /\ \E q \in 1..Len(calls) :
                        CallOf(report[e].file, q) /\ Rewrote(calls[q]) >= 1
        /\ total_files_modified =
              Cardinality({e \in 1..Len(report) : report[e].status = "commented"})

\* C18: for every file the count after a pass is <= the count before it, the
\* number reported is between 0 and the number of lines rewritten, and the file
\* is counted in total_files_modified exactly when before_count > 0 and a line
\* was rewritten.
C18_Reporting == C18_Lines /\ C18_Counts /\ C18_Total

\* C18 witness: main() has reported a file as commented with the number 0: the
\* pass rewrote a line that was not active and left the active one
C18_Witness ==
    /\ pc = "loop"
    /\ report # <<>>
    /\ report[Len(report)].status = "commented"
    /\ report[Len(report)].n = 0
    /\ before_count = 1
    /\ Rewrote(Last) = 1
    /\ total_files_modified >= 1

\* C18 witness of the usual case: the pass rewrote the active lines and the
\* number reported is their count
C18_WitnessAll ==
    /\ pc = "loop"
    /\ report # <<>>
    /\ report[Len(report)].status = "commented"
    /\ report[Len(report)].n = before_count
    /\ after_count = 0

=============================================================================
